---------------------------- MODULE Spec2Model ----------------------------
(***************************************************************************)
(* Gas metering of store/types/gas.go: the bounded meter (basicGasMeter),  *)
(* the unbounded meter (infiniteGasMeter) and the two cost tables.         *)
(*                                                                         *)
(* One meter is created in the initial state and is then driven by an      *)
(* arbitrary sequence of ConsumeGas and RefundGas calls.  A call that      *)
(* panics keeps every assignment it made before the panic; the caller may  *)
(* recover and call the meter again.                                       *)
(*                                                                         *)
(* Gas is uint64 in the source.  The model keeps the unsigned, fixed-width *)
(* arithmetic and scales the width to GasBits bits, so that MaxUint64      *)
(* stands for math.MaxUint64 and Two64 for 2^64.                           *)
(***************************************************************************)
EXTENDS Integers, FiniteSets

\* Width of the Gas type in the model (64 in the source).
GasBits == 2

Two64 == 2 ^ GasBits

\* math.MaxUint64
MaxUint64 == Two64 - 1

\* type Gas = uint64
Gas == 0 .. MaxUint64

\* Two of the gas consumption descriptors of the source.
GasReadCostFlatDesc == "ReadFlat"

GasWriteCostFlatDesc == "WriteFlat"

Descriptors == {GasReadCostFlatDesc, GasWriteCostFlatDesc}

VARIABLES
    kind,                  \* "basic" (basicGasMeter) or "infinite" (infiniteGasMeter)
    limit,                 \* basicGasMeter.limit
    consumed,              \* basicGasMeter.consumed / infiniteGasMeter.consumed
    costBreakdownEnabled,  \* basicGasMeter.costBreakdownEnabled
    report,                \* basicGasMeter.report: a map from descriptor to Gas
    call,                  \* the last call: its method and arguments
    panic,                 \* the value the last call panicked with, or NoPanic
    before,                \* the meter's fields as they were before the last call
    clean,                 \* no call so far has panicked
    valid,                 \* every call so far was within the limit and the balance
    sum,                   \* while valid: charged amounts minus refunded amounts
    fatal,                 \* some ConsumeGas call has raised OutOfGas or GasOverflow
    halted,                \* one has, and no RefundGas call has returned normally since
    lookup,                \* the last cost table accessor called and what it returned
    twin                   \* an infiniteGasMeter driven by the same calls (SpecTwin)

vars == <<kind, limit, consumed, costBreakdownEnabled, report,
          call, panic, before, clean, valid, sum, fatal, halted, lookup, twin>>

-----------------------------------------------------------------------------
(* GasReport = map[string]Gas.  A nil map and an empty map both read as the *)
(* map with no entries; the source writes to report only when              *)
(* costBreakdownEnabled, that is only to the map NewGasMeter allocated.    *)

EmptyReport == [d \in {} |-> 0]

\* m[d] of a Go map: the zero value when the key is absent.
MapGet(m, d) == IF d \in DOMAIN m THEN m[d] ELSE 0

\* m[d] = v of a Go map: the entry is created when absent.
MapSet(m, d, v) == [x \in (DOMAIN m) \cup {d} |-> IF x = d THEN v ELSE m[x]]

\* The panic payloads: ErrorNegativeGasConsumed, ErrorOutOfGas, ErrorGasOverflow.
NoPanic == [type |-> "none", Descriptor |-> ""]

ErrorNegativeGasConsumed(descriptor) ==
    [type |-> "ErrorNegativeGasConsumed", Descriptor |-> descriptor]

\* Faulty variant of ErrorOutOfGas: the payload is the descriptor of the call
\* before this one.
ErrorOutOfGas_Stale(descriptor) ==
    [type |-> "ErrorOutOfGas", Descriptor |-> call.descriptor]

ErrorOutOfGas(descriptor) ==
    [type |-> "ErrorOutOfGas", Descriptor |-> descriptor]

ErrorGasOverflow(descriptor) ==
    [type |-> "ErrorGasOverflow", Descriptor |-> descriptor]

\* The two fatal conditions ConsumeGas raises.
Fatal == {"ErrorOutOfGas", "ErrorGasOverflow"}

\* Faulty variant of addUint64Overflow: the comparison is off by one, so a
\* sum of exactly math.MaxUint64 is reported as an overflow.
addUint64Overflow_OffByOne(a, b) ==
    IF MaxUint64 - a <= b THEN <<0, TRUE>> ELSE <<(a + b) % Two64, FALSE>>

\* Faulty variant of addUint64Overflow: no detection, the sum wraps.
addUint64Overflow_Wraps(a, b) == <<(a + b) % Two64, FALSE>>

\* type GasConfig struct, and its zero value GasConfig{}.
GasConfig(has, delete, readFlat, readPerByte, writeFlat, writePerByte, iterNextFlat) ==
    [HasCost |-> has, DeleteCost |-> delete, ReadCostFlat |-> readFlat,
     ReadCostPerByte |-> readPerByte, WriteCostFlat |-> writeFlat,
     WriteCostPerByte |-> writePerByte, IterNextCostFlat |-> iterNextFlat]

GasConfigZero == GasConfig(0, 0, 0, 0, 0, 0, 0)

\* func KVGasConfig() GasConfig
KVGasConfig ==
    [HasCost |-> 1000,
     DeleteCost |-> 1000,
     ReadCostFlat |-> 1000,
     ReadCostPerByte |-> 3,
     WriteCostFlat |-> 2000,
     WriteCostPerByte |-> 30,
     IterNextCostFlat |-> 30]

\* Faulty variant of TransientGasConfig: the per-byte write cost of the
\* persistent table was left in.
TransientGasConfig_WritePerByte ==
    [HasCost |-> 100,
     DeleteCost |-> 100,
     ReadCostFlat |-> 100,
     ReadCostPerByte |-> 0,
     WriteCostFlat |-> 200,
     WriteCostPerByte |-> 30,
     IterNextCostFlat |-> 3]

\* func TransientGasConfig() GasConfig
TransientGasConfig ==
    [HasCost |-> 100,
     DeleteCost |-> 100,
     ReadCostFlat |-> 100,
     ReadCostPerByte |-> 0,
     WriteCostFlat |-> 200,
     WriteCostPerByte |-> 3,
     IterNextCostFlat |-> 3]

\* addUint64Overflow: <<result, overflow>>.
addUint64Overflow(a, b) ==
    IF MaxUint64 - a < b THEN <<0, TRUE>> ELSE <<(a + b) % Two64, FALSE>>

\* a - b, a + b on uint64: Go wraps silently.
SubUint64(a, b) == (a - b) % Two64

AddUint64(a, b) == (a + b) % Two64

-----------------------------------------------------------------------------
(* The read-only methods of the two meters.                                *)

basicGasMeter_GasConsumed == consumed

basicGasMeter_Limit == limit

\* Faulty variant of IsPastLimit: the operands are swapped.
basicGasMeter_IsPastLimit_Swapped == limit > consumed

basicGasMeter_IsPastLimit == consumed > limit

\* Faulty variant of IsOutOfGas: strict, like IsPastLimit.
basicGasMeter_IsOutOfGas_Strict == consumed > limit

basicGasMeter_IsOutOfGas == consumed >= limit

basicGasMeter_GasConsumedToLimit ==
    IF basicGasMeter_IsPastLimit THEN limit ELSE consumed

basicGasMeter_Report == report

infiniteGasMeter_GasConsumed == consumed

infiniteGasMeter_GasConsumedToLimit == consumed

infiniteGasMeter_Limit == 0

infiniteGasMeter_IsPastLimit == FALSE

\* Faulty variant of infiniteGasMeter.IsOutOfGas: the bounded meter's test
\* against the reported limit of 0.
infiniteGasMeter_IsOutOfGas_AgainstLimit == consumed >= infiniteGasMeter_Limit

infiniteGasMeter_IsOutOfGas == FALSE

infiniteGasMeter_Report == EmptyReport

\* The GasMeter interface: a call dispatches on the meter's dynamic type.
GasConsumed ==
    IF kind = "basic" THEN basicGasMeter_GasConsumed
    ELSE infiniteGasMeter_GasConsumed

GasConsumedToLimit ==
    IF kind = "basic" THEN basicGasMeter_GasConsumedToLimit
    ELSE infiniteGasMeter_GasConsumedToLimit

Limit ==
    IF kind = "basic" THEN basicGasMeter_Limit ELSE infiniteGasMeter_Limit

IsPastLimit ==
    IF kind = "basic" THEN basicGasMeter_IsPastLimit
    ELSE infiniteGasMeter_IsPastLimit

IsOutOfGas ==
    IF kind = "basic" THEN basicGasMeter_IsOutOfGas
    ELSE infiniteGasMeter_IsOutOfGas

Report ==
    IF kind = "basic" THEN basicGasMeter_Report ELSE infiniteGasMeter_Report

-----------------------------------------------------------------------------
(* What a call leaves behind for the caller: the method and arguments, the *)
(* panic value (NoPanic when the call returned normally) and the fields as *)
(* they were on entry.  Beside them the caller's own ledger, computed from *)
(* the arguments alone in unbounded integers: sum is the amounts charged   *)
(* minus the amounts refunded, kept for as long as every call was valid,   *)
(* that is a charge that keeps the total within 64 bits and within the     *)
(* limit, or a refund of no more than the consumed value.                  *)

ValidCall(method, amount) ==
    IF method = "ConsumeGas"
    THEN /\ sum + amount <= MaxUint64
         /\ kind = "basic" => sum + amount <= limit
    ELSE amount <= consumed

Observe(method, amount, descriptor, p) ==
    /\ call' = [method |-> method, amount |-> amount, descriptor |-> descriptor]
    /\ panic' = p
    /\ before' = [limit |-> limit, consumed |-> consumed, report |-> report]
    /\ clean' = (clean /\ p = NoPanic)
    /\ valid' = (valid /\ ValidCall(method, amount))
    /\ sum' = IF valid /\ ValidCall(method, amount)
              THEN (IF method = "ConsumeGas" THEN sum + amount ELSE sum - amount)
              ELSE 0
    /\ fatal' = (fatal \/ (method = "ConsumeGas" /\ p.type \in Fatal))
    /\ halted' = IF method = "ConsumeGas" /\ p.type \in Fatal THEN TRUE
                 ELSE IF method = "RefundGas" /\ p = NoPanic THEN FALSE
                 ELSE halted

\* NewGasMeter(limit, costBreakdownEnabled)
NewGasMeter(l, enabled) ==
    /\ kind = "basic"
    /\ limit = l
    /\ consumed = 0
    /\ costBreakdownEnabled = enabled
    /\ report = EmptyReport

\* NewInfiniteGasMeter(): the struct has the consumed field only.
NewInfiniteGasMeter ==
    /\ kind = "infinite"
    /\ limit = 0
    /\ consumed = 0
    /\ costBreakdownEnabled = FALSE
    /\ report = EmptyReport

\* Nothing has been called yet.
InitObserved ==
    /\ call = [method |-> "none", amount |-> 0, descriptor |-> ""]
    /\ panic = NoPanic
    /\ before = [limit |-> limit, consumed |-> 0, report |-> EmptyReport]
    /\ clean = TRUE
    /\ valid = TRUE
    /\ sum = 0
    /\ fatal = FALSE
    /\ halted = FALSE
    /\ lookup = [fn |-> "none", config |-> GasConfigZero]
    /\ twin = [consumed |-> 0, panic |-> NoPanic]

Init ==
    /\ \/ \E l \in Gas, enabled \in BOOLEAN : NewGasMeter(l, enabled)
       \/ NewInfiniteGasMeter
    /\ InitObserved

\* Faulty variant of basicGasMeter.ConsumeGas: the limit is checked before the
\* sum is stored, so a charge that runs out of gas leaves consumed as it was.
basicGasMeter_ConsumeGas_CheckFirst(amount, descriptor) ==
    LET r == addUint64Overflow(consumed, amount) IN
    /\ kind = "basic"
    /\ IF r[2]
       THEN /\ consumed' = MaxUint64
            /\ report' = report
            /\ Observe("ConsumeGas", amount, descriptor,
                       ErrorGasOverflow(descriptor))
       ELSE IF r[1] > limit
       THEN /\ consumed' = consumed
            /\ report' = report
            /\ Observe("ConsumeGas", amount, descriptor,
                       ErrorOutOfGas(descriptor))
       ELSE /\ consumed' = r[1]
            /\ report' = IF costBreakdownEnabled
                         THEN MapSet(report, descriptor,
                                     AddUint64(MapGet(report, descriptor), amount))
                         ELSE report
            /\ Observe("ConsumeGas", amount, descriptor, NoPanic)
    /\ UNCHANGED <<kind, limit, costBreakdownEnabled>>

\* Faulty variant of basicGasMeter.ConsumeGas: the report is updated before
\* the limit is checked, so a charge that runs out of gas is recorded too.
basicGasMeter_ConsumeGas_ReportFirst(amount, descriptor) ==
    LET r == addUint64Overflow(consumed, amount) IN
    /\ kind = "basic"
    /\ IF r[2]
       THEN /\ consumed' = MaxUint64
            /\ report' = report
            /\ Observe("ConsumeGas", amount, descriptor,
                       ErrorGasOverflow(descriptor))
       ELSE /\ consumed' = r[1]
            /\ report' = IF costBreakdownEnabled
                         THEN MapSet(report, descriptor,
                                     AddUint64(MapGet(report, descriptor), amount))
                         ELSE report
            /\ Observe("ConsumeGas", amount, descriptor,
                       IF r[1] > limit THEN ErrorOutOfGas(descriptor)
                       ELSE NoPanic)
    /\ UNCHANGED <<kind, limit, costBreakdownEnabled>>

\* Faulty variant of basicGasMeter.ConsumeGas: a limit of 0 is taken to mean
\* that there is no limit.
basicGasMeter_ConsumeGas_ZeroUnlimited(amount, descriptor) ==
    LET r == addUint64Overflow(consumed, amount) IN
    /\ kind = "basic"
    /\ IF r[2]
       THEN /\ consumed' = MaxUint64
            /\ report' = report
            /\ Observe("ConsumeGas", amount, descriptor,
                       ErrorGasOverflow(descriptor))
       ELSE IF limit # 0 /\ r[1] > limit
       THEN /\ consumed' = r[1]
            /\ report' = report
            /\ Observe("ConsumeGas", amount, descriptor,
                       ErrorOutOfGas(descriptor))
       ELSE /\ consumed' = r[1]
            /\ report' = IF costBreakdownEnabled
                         THEN MapSet(report, descriptor,
                                     AddUint64(MapGet(report, descriptor), amount))
                         ELSE report
            /\ Observe("ConsumeGas", amount, descriptor, NoPanic)
    /\ UNCHANGED <<kind, limit, costBreakdownEnabled>>

\* Faulty variant of basicGasMeter.ConsumeGas: on overflow consumed keeps the 0
\* that addUint64Overflow returned, as in infiniteGasMeter.ConsumeGas.
basicGasMeter_ConsumeGas_NoClamp(amount, descriptor) ==
    LET r == addUint64Overflow(consumed, amount) IN
    /\ kind = "basic"
    /\ IF r[2]
       THEN /\ consumed' = r[1]
            /\ report' = report
            /\ Observe("ConsumeGas", amount, descriptor,
                       ErrorGasOverflow(descriptor))
       ELSE IF r[1] > limit
       THEN /\ consumed' = r[1]
            /\ report' = report
            /\ Observe("ConsumeGas", amount, descriptor,
                       ErrorOutOfGas(descriptor))
       ELSE /\ consumed' = r[1]
            /\ report' = IF costBreakdownEnabled
                         THEN MapSet(report, descriptor,
                                     AddUint64(MapGet(report, descriptor), amount))
                         ELSE report
            /\ Observe("ConsumeGas", amount, descriptor, NoPanic)
    /\ UNCHANGED <<kind, limit, costBreakdownEnabled>>

\* Faulty variant of basicGasMeter.ConsumeGas: the report is updated whether
\* or not the breakdown is enabled.
basicGasMeter_ConsumeGas_NoFlag(amount, descriptor) ==
    LET r == addUint64Overflow(consumed, amount) IN
    /\ kind = "basic"
    /\ IF r[2]
       THEN /\ consumed' = MaxUint64
            /\ report' = report
            /\ Observe("ConsumeGas", amount, descriptor,
                       ErrorGasOverflow(descriptor))
       ELSE IF r[1] > limit
       THEN /\ consumed' = r[1]
            /\ report' = report
            /\ Observe("ConsumeGas", amount, descriptor,
                       ErrorOutOfGas(descriptor))
       ELSE /\ consumed' = r[1]
            /\ report' = MapSet(report, descriptor,
                                AddUint64(MapGet(report, descriptor), amount))
            /\ Observe("ConsumeGas", amount, descriptor, NoPanic)
    /\ UNCHANGED <<kind, limit, costBreakdownEnabled>>

\* func (g *basicGasMeter) ConsumeGas(amount Gas, descriptor string)
basicGasMeter_ConsumeGas(amount, descriptor) ==
    LET r == addUint64Overflow(consumed, amount) IN
    /\ kind = "basic"
    /\ IF r[2]
       THEN /\ consumed' = MaxUint64
            /\ report' = report
            /\ Observe("ConsumeGas", amount, descriptor,
                       ErrorGasOverflow(descriptor))
       ELSE IF r[1] > limit
       THEN /\ consumed' = r[1]
            /\ report' = report
            /\ Observe("ConsumeGas", amount, descriptor,
                       ErrorOutOfGas(descriptor))
       ELSE /\ consumed' = r[1]
            /\ report' = IF costBreakdownEnabled
                         THEN MapSet(report, descriptor,
                                     AddUint64(MapGet(report, descriptor), amount))
                         ELSE report
            /\ Observe("ConsumeGas", amount, descriptor, NoPanic)
    /\ UNCHANGED <<kind, limit, costBreakdownEnabled>>

\* Faulty variant of basicGasMeter.RefundGas: the report is not updated.
basicGasMeter_RefundGas_NoReport(amount, descriptor) ==
    /\ kind = "basic"
    /\ IF consumed < amount
       THEN /\ UNCHANGED <<consumed, report>>
            /\ Observe("RefundGas", amount, descriptor,
                       ErrorNegativeGasConsumed(descriptor))
       ELSE /\ consumed' = SubUint64(consumed, amount)
            /\ report' = report
            /\ Observe("RefundGas", amount, descriptor, NoPanic)
    /\ UNCHANGED <<kind, limit, costBreakdownEnabled>>

\* Faulty variant of basicGasMeter.RefundGas: the guard is off by one, so a
\* refund of exactly the consumed value panics.
basicGasMeter_RefundGas_OffByOne(amount, descriptor) ==
    /\ kind = "basic"
    /\ IF consumed <= amount
       THEN /\ UNCHANGED <<consumed, report>>
            /\ Observe("RefundGas", amount, descriptor,
                       ErrorNegativeGasConsumed(descriptor))
       ELSE /\ consumed' = SubUint64(consumed, amount)
            /\ report' = IF costBreakdownEnabled
                         THEN MapSet(report, descriptor,
                                     SubUint64(MapGet(report, descriptor), amount))
                         ELSE report
            /\ Observe("RefundGas", amount, descriptor, NoPanic)
    /\ UNCHANGED <<kind, limit, costBreakdownEnabled>>

\* Faulty variant of basicGasMeter.RefundGas: the report is updated whether or
\* not the breakdown is enabled.
basicGasMeter_RefundGas_NoFlag(amount, descriptor) ==
    /\ kind = "basic"
    /\ IF consumed < amount
       THEN /\ UNCHANGED <<consumed, report>>
            /\ Observe("RefundGas", amount, descriptor,
                       ErrorNegativeGasConsumed(descriptor))
       ELSE /\ consumed' = SubUint64(consumed, amount)
            /\ report' = MapSet(report, descriptor,
                                SubUint64(MapGet(report, descriptor), amount))
            /\ Observe("RefundGas", amount, descriptor, NoPanic)
    /\ UNCHANGED <<kind, limit, costBreakdownEnabled>>

\* func (g *basicGasMeter) RefundGas(amount Gas, descriptor string)
basicGasMeter_RefundGas(amount, descriptor) ==
    /\ kind = "basic"
    /\ IF consumed < amount
       THEN /\ UNCHANGED <<consumed, report>>
            /\ Observe("RefundGas", amount, descriptor,
                       ErrorNegativeGasConsumed(descriptor))
       ELSE /\ consumed' = SubUint64(consumed, amount)
            /\ report' = IF costBreakdownEnabled
                         THEN MapSet(report, descriptor,
                                     SubUint64(MapGet(report, descriptor), amount))
                         ELSE report
            /\ Observe("RefundGas", amount, descriptor, NoPanic)
    /\ UNCHANGED <<kind, limit, costBreakdownEnabled>>

\* func (g *infiniteGasMeter) ConsumeGas(amount Gas, descriptor string)
infiniteGasMeter_ConsumeGas(amount, descriptor) ==
    LET r == addUint64Overflow(consumed, amount) IN
    /\ kind = "infinite"
    /\ consumed' = r[1]
    /\ Observe("ConsumeGas", amount, descriptor,
               IF r[2] THEN ErrorGasOverflow(descriptor) ELSE NoPanic)
    /\ UNCHANGED <<kind, limit, costBreakdownEnabled, report>>

\* func (g *infiniteGasMeter) RefundGas(amount Gas, descriptor string)
infiniteGasMeter_RefundGas(amount, descriptor) ==
    /\ kind = "infinite"
    /\ IF consumed < amount
       THEN /\ UNCHANGED consumed
            /\ Observe("RefundGas", amount, descriptor,
                       ErrorNegativeGasConsumed(descriptor))
       ELSE /\ consumed' = SubUint64(consumed, amount)
            /\ Observe("RefundGas", amount, descriptor, NoPanic)
    /\ UNCHANGED <<kind, limit, costBreakdownEnabled, report>>

\* ConsumeGas / RefundGas through the GasMeter interface.
ConsumeGas ==
    \E amount \in Gas, descriptor \in Descriptors :
        \/ /\ basicGasMeter_ConsumeGas(amount, descriptor)
           /\ UNCHANGED <<lookup, twin>>
        \/ /\ infiniteGasMeter_ConsumeGas(amount, descriptor)
           /\ UNCHANGED <<lookup, twin>>

RefundGas ==
    \E amount \in Gas, descriptor \in Descriptors :
        \/ /\ basicGasMeter_RefundGas(amount, descriptor)
           /\ UNCHANGED <<lookup, twin>>
        \/ /\ infiniteGasMeter_RefundGas(amount, descriptor)
           /\ UNCHANGED <<lookup, twin>>

Next == ConsumeGas \/ RefundGas

Spec == Init /\ [][Next]_vars

-----------------------------------------------------------------------------
(* The cost tables: a caller may ask for either table at any point between *)
(* the meter's calls.                                                      *)

meter == <<kind, limit, consumed, costBreakdownEnabled, report,
           call, panic, before, clean, valid, sum, fatal, halted>>

CallKVGasConfig ==
    /\ lookup' = [fn |-> "KVGasConfig", config |-> KVGasConfig]
    /\ UNCHANGED <<meter, twin>>

CallTransientGasConfig ==
    /\ lookup' = [fn |-> "TransientGasConfig", config |-> TransientGasConfig]
    /\ UNCHANGED <<meter, twin>>

NextConfig ==
    \/ ConsumeGas
    \/ RefundGas
    \/ CallKVGasConfig
    \/ CallTransientGasConfig

SpecConfig == Init /\ [][NextConfig]_vars

-----------------------------------------------------------------------------
(* A bounded meter and an unbounded meter driven by the same calls: twin   *)
(* is the infiniteGasMeter, with its consumed field and the panic value of *)
(* its last call.                                                          *)

\* infiniteGasMeter.ConsumeGas on the meter g.
infiniteGasMeter_ConsumeGasOn(g, amount, descriptor) ==
    LET r == addUint64Overflow(g.consumed, amount) IN
    [consumed |-> r[1],
     panic |-> IF r[2] THEN ErrorGasOverflow(descriptor) ELSE NoPanic]

\* Faulty variant of infiniteGasMeter.RefundGas: the guard is off by one.
infiniteGasMeter_RefundGasOn_OffByOne(g, amount, descriptor) ==
    IF g.consumed <= amount
    THEN [consumed |-> g.consumed,
          panic |-> ErrorNegativeGasConsumed(descriptor)]
    ELSE [consumed |-> SubUint64(g.consumed, amount), panic |-> NoPanic]

\* infiniteGasMeter.RefundGas on the meter g.
infiniteGasMeter_RefundGasOn(g, amount, descriptor) ==
    IF g.consumed < amount
    THEN [consumed |-> g.consumed,
          panic |-> ErrorNegativeGasConsumed(descriptor)]
    ELSE [consumed |-> SubUint64(g.consumed, amount), panic |-> NoPanic]

InitTwin ==
    /\ \E l \in Gas, enabled \in BOOLEAN : NewGasMeter(l, enabled)
    /\ InitObserved

TwinConsumeGas ==
    \E amount \in Gas, descriptor \in Descriptors :
        /\ basicGasMeter_ConsumeGas(amount, descriptor)
        /\ twin' = infiniteGasMeter_ConsumeGasOn(twin, amount, descriptor)
        /\ UNCHANGED lookup

TwinRefundGas ==
    \E amount \in Gas, descriptor \in Descriptors :
        /\ basicGasMeter_RefundGas(amount, descriptor)
        /\ twin' = infiniteGasMeter_RefundGasOn(twin, amount, descriptor)
        /\ UNCHANGED lookup

NextTwin == TwinConsumeGas \/ TwinRefundGas

SpecTwin == InitTwin /\ [][NextTwin]_vars

-----------------------------------------------------------------------------
(* Properties.  Each is stated over the state a call leaves: call and      *)
(* panic are the call and its outcome, before holds the fields on entry.   *)

Min(a, b) == IF a <= b THEN a ELSE b

Consumes == call.method = "ConsumeGas"

Refunds == call.method = "RefundGas"

\* C1: on a bounded meter, as long as every call so far was valid (no charge
\* took the running total past 64 bits or past the limit, no refund exceeded
\* the consumed value), the last call raised no fatal condition and
\* GasConsumed() is the exact sum of the charges minus the refunds.
C1_ExactSumNoPanic ==
    (kind = "basic" /\ valid) =>
        /\ panic = NoPanic
        /\ GasConsumed = sum

\* C1 witness: a bounded meter that has been charged and then partly refunded.
C1_Witness ==
    /\ kind = "basic" /\ valid /\ Refunds
    /\ call.amount > 0
    /\ sum > 0
    /\ GasConsumed = sum

\* C2: on a bounded meter, a charge whose total fits 64 bits and exceeds the
\* limit raises OutOfGas; afterwards GasConsumed() is the over-limit total and
\* GasConsumedToLimit() is exactly the limit.
C2_OutOfGasKeepsCharge ==
    (/\ kind = "basic" /\ Consumes
     /\ before.consumed + call.amount <= MaxUint64
     /\ before.consumed + call.amount > limit) =>
        /\ panic = ErrorOutOfGas(call.descriptor)
        /\ GasConsumed = before.consumed + call.amount
        /\ GasConsumedToLimit = limit

\* C2 witness: a charge on a partly used meter that crossed the limit.
C2_Witness ==
    /\ kind = "basic" /\ Consumes
    /\ panic.type = "ErrorOutOfGas"
    /\ 0 < before.consumed /\ before.consumed <= limit
    /\ GasConsumed > limit
    /\ GasConsumedToLimit = limit

\* C3: on a bounded meter, whatever the limit, a charge whose total exceeds the
\* maximum 64-bit value raises GasOverflow (not OutOfGas) and leaves consumed
\* at the maximum value.
C3_OverflowClampsBounded ==
    (/\ kind = "basic" /\ Consumes
     /\ before.consumed + call.amount > MaxUint64) =>
        /\ panic = ErrorGasOverflow(call.descriptor)
        /\ consumed = MaxUint64

\* C3 witness: an overflowing charge on a meter that was within a limit below
\* the maximum, so the limit was exceeded as well.
C3_Witness ==
    /\ kind = "basic" /\ Consumes
    /\ panic.type = "ErrorGasOverflow"
    /\ before.consumed <= limit /\ limit < MaxUint64
    /\ consumed = MaxUint64

\* C4: on an unbounded meter, a charge whose total exceeds the maximum 64-bit
\* value raises GasOverflow and GasConsumed() is then the maximum value.
C4_OverflowClampsInfinite ==
    (/\ kind = "infinite" /\ Consumes
     /\ before.consumed + call.amount > MaxUint64) =>
        /\ panic = ErrorGasOverflow(call.descriptor)
        /\ GasConsumed = MaxUint64

\* C5: on both meters RefundGas raises NegativeGasConsumed exactly when the
\* amount exceeds the consumed value, and then leaves consumed and every
\* report entry as they were.
C5_RefundGuard ==
    Refunds =>
        /\ (panic = ErrorNegativeGasConsumed(call.descriptor))
               <=> (call.amount > before.consumed)
        /\ (panic = NoPanic) <=> (call.amount <= before.consumed)
        /\ panic # NoPanic =>
               /\ consumed = before.consumed
               /\ report = before.report
               /\ limit = before.limit

\* C5 witness: a refused refund on a bounded meter that tracks a breakdown and
\* holds charges.
C5_Witness ==
    /\ kind = "basic" /\ costBreakdownEnabled /\ Refunds
    /\ panic.type = "ErrorNegativeGasConsumed"
    /\ consumed > 0
    /\ report # EmptyReport

\* C6: on a bounded meter without breakdown tracking, a refund of no more than
\* the consumed value lowers consumed by exactly the amount and changes nothing
\* else: the limit is the same and Report() stays empty.
C6_RefundFrame ==
    (/\ kind = "basic" /\ ~costBreakdownEnabled /\ Refunds
     /\ call.amount <= before.consumed) =>
        /\ consumed = before.consumed - call.amount
        /\ limit = before.limit
        /\ Report = EmptyReport
        /\ before.report = EmptyReport

\* C6 witness: such a refund of a positive amount that leaves a positive rest.
C6_Witness ==
    /\ kind = "basic" /\ ~costBreakdownEnabled /\ Refunds
    /\ panic = NoPanic
    /\ call.amount > 0
    /\ consumed > 0
    /\ consumed = before.consumed - call.amount

\* C7: in every state of a bounded meter, also after a fatal condition,
\* IsOutOfGas() is true iff consumed >= limit and IsPastLimit() is true iff
\* consumed > limit; at consumed = limit the first is true, the second false.
C7_LimitPredicates ==
    kind = "basic" =>
        /\ IsOutOfGas <=> (consumed >= limit)
        /\ IsPastLimit <=> (consumed > limit)
        /\ consumed = limit => (IsOutOfGas /\ ~IsPastLimit)

\* C7 witness: a meter brought back to exactly its limit after a fatal condition.
C7_Witness ==
    /\ kind = "basic" /\ ~clean
    /\ limit > 0
    /\ consumed = limit
    /\ IsOutOfGas /\ ~IsPastLimit

\* C8: in every state of a bounded meter GasConsumedToLimit() is the minimum of
\* consumed and limit, so it never exceeds Limit(), also after OutOfGas or
\* GasOverflow.
C8_ConsumedToLimitIsMin ==
    kind = "basic" =>
        /\ GasConsumedToLimit = Min(consumed, limit)
        /\ GasConsumedToLimit <= Limit

\* C8 witness: after a GasOverflow consumed is above the limit and the clamped
\* view is the limit.
C8_Witness ==
    /\ kind = "basic"
    /\ panic.type = "ErrorGasOverflow"
    /\ consumed > limit
    /\ GasConsumedToLimit = limit

\* C9: Gas values never wrap silently: after a call that returns normally, on
\* either meter, consumed is the true integer sum or difference, and with the
\* breakdown enabled the entry of the call's descriptor is the true integer
\* sum or difference of its old value and the amount.
C9_NoSilentWrap ==
    (call.method # "none" /\ panic = NoPanic) =>
        LET signed == IF Consumes THEN call.amount ELSE 0 - call.amount IN
        /\ consumed = before.consumed + signed
        /\ costBreakdownEnabled =>
               MapGet(report, call.descriptor)
                   = MapGet(before.report, call.descriptor) + signed

\* C10: on a bounded meter with the breakdown enabled, a charge that returns
\* normally raises the entry of its descriptor by exactly the amount (from 0
\* when the entry was absent) and leaves every other entry as it was.
C10_ChargeAccumulates ==
    (/\ kind = "basic" /\ costBreakdownEnabled /\ Consumes
     /\ panic = NoPanic) =>
        /\ call.descriptor \in DOMAIN report
        /\ report[call.descriptor]
               = MapGet(before.report, call.descriptor) + call.amount
        /\ \A d \in Descriptors \ {call.descriptor} :
               /\ d \in DOMAIN report <=> d \in DOMAIN before.report
               /\ MapGet(report, d) = MapGet(before.report, d)

\* C11: on a bounded meter with the breakdown enabled, a charge that raises
\* OutOfGas or GasOverflow leaves the report as it was while consumed is
\* updated (to the over-limit total for OutOfGas, to the maximum value for
\* GasOverflow): the report misses exactly the failed charge.
C11_FailedChargeNotReported ==
    (/\ kind = "basic" /\ costBreakdownEnabled /\ Consumes
     /\ panic.type \in Fatal) =>
        /\ report = before.report
        /\ panic.type = "ErrorOutOfGas" =>
               consumed - before.consumed = call.amount
        /\ panic.type = "ErrorGasOverflow" => consumed = MaxUint64

\* C11 witness: a positive charge under a descriptor that has an entry ran out
\* of gas; consumed moved, the entry did not.
C11_Witness ==
    /\ kind = "basic" /\ costBreakdownEnabled /\ Consumes
    /\ panic.type = "ErrorOutOfGas"
    /\ call.amount > 0
    /\ call.descriptor \in DOMAIN report
    /\ report = before.report
    /\ consumed = before.consumed + call.amount

\* C12: for a bounded meter created without breakdown tracking Report() is
\* empty in every state, whatever calls were made and however they ended.
C12_ReportEmptyWhenDisabled ==
    (kind = "basic" /\ ~costBreakdownEnabled) => Report = EmptyReport

\* C12 witness: such a meter after a fatal condition and a later successful
\* charge.
C12_Witness ==
    /\ kind = "basic" /\ ~costBreakdownEnabled /\ Consumes
    /\ ~clean
    /\ panic = NoPanic
    /\ call.amount > 0
    /\ Report = EmptyReport

\* C13: for an unbounded meter, in every state Limit() is 0, IsPastLimit() and
\* IsOutOfGas() are false, Report() is empty and GasConsumedToLimit() equals
\* GasConsumed(); ConsumeGas never raises OutOfGas: it raises GasOverflow when
\* the total exceeds the maximum value and nothing otherwise.
C13_InfiniteNeverOutOfGas ==
    kind = "infinite" =>
        /\ Limit = 0
        /\ ~IsPastLimit
        /\ ~IsOutOfGas
        /\ Report = EmptyReport
        /\ GasConsumedToLimit = GasConsumed
        /\ Consumes => panic.type \in {"none", "ErrorGasOverflow"}
        /\ (Consumes /\ before.consumed + call.amount <= MaxUint64) =>
               panic = NoPanic

\* C13 witness: an unbounded meter charged up to the maximum value without a
\* fatal condition.
C13_Witness ==
    /\ kind = "infinite" /\ Consumes
    /\ panic = NoPanic
    /\ call.amount > 0
    /\ GasConsumed = MaxUint64
    /\ ~IsOutOfGas

\* C14 as claimed: once a ConsumeGas call on a bounded meter has raised
\* OutOfGas or GasOverflow, no later ConsumeGas call returns normally, whatever
\* ConsumeGas and RefundGas calls come in between.
C14_PermanentlyHalted ==
    (kind = "basic" /\ Consumes /\ panic = NoPanic) => ~fatal

\* C14 as amended: once a ConsumeGas call on a bounded meter has raised
\* OutOfGas or GasOverflow, then until a RefundGas call returns normally no
\* ConsumeGas call returns normally, but for a charge of 0 on a meter whose
\* limit is the maximum value (there consumed equals the limit after
\* GasOverflow).  The meter stays out of gas for that long.
C14_HaltedUntilRefund ==
    (kind = "basic" /\ halted) =>
        /\ IsOutOfGas
        /\ (Consumes /\ panic = NoPanic) =>
               (call.amount = 0 /\ limit = MaxUint64 /\ consumed = MaxUint64)

\* C14 witness: a charge of 0 refused on a meter that an earlier charge had
\* taken past its limit.
C14_Witness ==
    /\ kind = "basic" /\ halted /\ Consumes
    /\ before.consumed > limit
    /\ call.amount = 0
    /\ panic.type = "ErrorOutOfGas"

\* C15: a bounded meter created with limit 0 permits no charge: IsOutOfGas()
\* is true from creation on, and every ConsumeGas call with a positive amount
\* raises OutOfGas or GasOverflow; 0 is not "unlimited".
C15_ZeroLimitPermitsNothing ==
    (kind = "basic" /\ limit = 0) =>
        /\ IsOutOfGas
        /\ (Consumes /\ call.amount > 0) => panic.type \in Fatal
        /\ (Consumes /\ panic = NoPanic) => consumed = before.consumed

\* C15 witness: the first positive charge on a fresh meter of limit 0 is
\* refused with OutOfGas.
C15_Witness ==
    /\ kind = "basic" /\ limit = 0 /\ Consumes
    /\ before.consumed = 0
    /\ call.amount > 0
    /\ panic.type = "ErrorOutOfGas"
    /\ IsOutOfGas

\* C16: every fatal condition raised by ConsumeGas or RefundGas, on either
\* meter, is one of OutOfGas, GasOverflow and NegativeGasConsumed (the first
\* two from ConsumeGas only, the third from RefundGas only) and carries the
\* descriptor argument of the call that raised it.
C16_PanicKindAndPayload ==
    panic # NoPanic =>
        /\ call.method \in {"ConsumeGas", "RefundGas"}
        /\ panic.type \in
               {"ErrorOutOfGas", "ErrorGasOverflow", "ErrorNegativeGasConsumed"}
        /\ Consumes <=> panic.type \in Fatal
        /\ Refunds <=> panic.type = "ErrorNegativeGasConsumed"
        /\ panic.Descriptor = call.descriptor
        /\ panic.Descriptor \in Descriptors

\* C16 witness: a refund refused by an unbounded meter that holds charges,
\* with the payload of this call.
C16_Witness ==
    /\ kind = "infinite" /\ Refunds
    /\ consumed > 0
    /\ panic = ErrorNegativeGasConsumed(GasWriteCostFlatDesc)
    /\ call.descriptor = GasWriteCostFlatDesc

\* C18: on a bounded meter, a ConsumeGas call made with consumed > limit, an
\* amount of 0 included, raises OutOfGas or GasOverflow and does not lower
\* consumed; so every charge fails until a refund returns normally.
C18_PastLimitEveryChargeFails ==
    (kind = "basic" /\ Consumes /\ before.consumed > before.limit) =>
        /\ panic.type \in Fatal
        /\ consumed >= before.consumed
        /\ consumed > limit

\* C18 witness: a charge under way from past the limit overflows and leaves
\* consumed at the maximum value.
C18_Witness ==
    /\ kind = "basic" /\ Consumes
    /\ before.consumed > before.limit
    /\ before.consumed < MaxUint64
    /\ panic.type = "ErrorGasOverflow"
    /\ consumed = MaxUint64

RECURSIVE SumOver(_, _)
\* The sum of the entries of report m under the descriptors in S.
SumOver(m, S) ==
    IF S = {} THEN 0
    ELSE LET d == CHOOSE x \in S : TRUE IN m[d] + SumOver(m, S \ {d})

ReportSum == SumOver(report, DOMAIN report)

\* C19: on a bounded meter with the breakdown enabled, as long as no call has
\* raised a fatal condition, the sum of all report entries taken modulo 2^64
\* equals GasConsumed().
C19_ReportSumsToConsumed ==
    (kind = "basic" /\ costBreakdownEnabled /\ clean) =>
        ReportSum % Two64 = GasConsumed

\* C19 witness: a state after charges and refunds, all returned normally, in
\* which an entry has wrapped, so that the plain sum exceeds the maximum value.
C19_Witness ==
    /\ kind = "basic" /\ costBreakdownEnabled /\ clean
    /\ Cardinality(DOMAIN report) = 2
    /\ ReportSum > MaxUint64
    /\ GasConsumed > 0
    /\ ReportSum % Two64 = GasConsumed

\* C17: KVGasConfig() and TransientGasConfig() return, on every call and
\* whatever the meter has done before, the tables (Has, Delete, ReadFlat,
\* ReadPerByte, WriteFlat, WritePerByte, IterNextFlat) =
\* (1000, 1000, 1000, 3, 2000, 30, 30) and (100, 100, 100, 0, 200, 3, 3).
C17_FixedCostTables ==
    /\ lookup.fn = "KVGasConfig" =>
           lookup.config = GasConfig(1000, 1000, 1000, 3, 2000, 30, 30)
    /\ lookup.fn = "TransientGasConfig" =>
           lookup.config = GasConfig(100, 100, 100, 0, 200, 3, 3)

\* C17 witness: the transient table asked for after the meter has been charged
\* and has raised a fatal condition.
C17_Witness ==
    /\ lookup.fn = "TransientGasConfig"
    /\ fatal
    /\ consumed > 0
    /\ lookup.config.WriteCostPerByte = 3

\* Whether a panic value is a fatal condition at all.
Raised(p) == p # NoPanic

\* C20: a bounded meter and an unbounded meter driven by the same calls agree
\* for as long as the bounded meter has raised neither OutOfGas nor
\* GasOverflow: after each call both report the same GasConsumed(), and the
\* call raised a fatal condition on one iff it did on the other.  So the two
\* differ only from a call on that takes the bounded total past the limit or
\* past the maximum value.
C20_LockstepUntilFatal ==
    (kind = "basic" /\ ~fatal) =>
        /\ twin.consumed = GasConsumed
        /\ Raised(twin.panic) <=> Raised(panic)
        /\ twin.panic = panic

\* C20 witness: both meters hold the same positive charge and both have just
\* refused the same refund.
C20_Witness ==
    /\ kind = "basic" /\ ~fatal /\ Refunds
    /\ panic.type = "ErrorNegativeGasConsumed"
    /\ twin.panic = panic
    /\ GasConsumed > 0
    /\ twin.consumed = GasConsumed

=============================================================================
